---- MODULE Spec2Model ----
(***************************************************************************)
(* VM Management and Upgrade Tool Server (vm_update_tool_server.py).       *)
(*                                                                         *)
(* The FastAPI application registers four handlers, all `async def` with   *)
(* no await inside: one handler runs from its first statement to its       *)
(* response before the next request is taken.  The model follows one       *)
(* request at a time through the statements of its handler; the remote     *)
(* ends (the SSH host, the ESXi/vCenter endpoint) and config.json are the  *)
(* environment, whose answers are drawn from bounded sets.                 *)
(*                                                                         *)
(* Python strings are TLA+ strings (TLC evaluates Len, \o and SubSeq on    *)
(* them), so substring tests, splitlines, strip and f-strings are          *)
(* computed on the real texts.  A Python value that may be None is an      *)
(* option: None is <<>> and a present value v is <<v>>.                    *)
(***************************************************************************)
EXTENDS Integers, Sequences, FiniteSets, TLC

VARIABLES
    config,            \* config.json in the working directory
    pc,                \* position of the running handler
    request,           \* the decoded HTTP request: method, path, body
    vm_config,         \* the VMConfig object of an upgrade request
    vm_defaults,       \* what load_vm_defaults returned
    client,            \* the paramiko.SSHClient of run_ssh_command
    service_instance,  \* the pyVmomi session of a discovery request
    vms,               \* vm_view.view, the inventory the request retrieved
    lookup,            \* what the scan of get_linux_vm_ip_from_esxi decided
    powered_on_vms,    \* the list list_powered_on_vms built
    session,           \* the virtualization session: none, open or closed
    apt_output,        \* what run_ssh_command returned
    raised,            \* the exception in flight inside the handler
    fault,             \* the first failure of a library call in this request
    calls,             \* the remote calls of this request, in order
    response,          \* the HTTP response, once the handler is done
    pending            \* requests received and waiting for the event loop

\* the locals of the upgrade handlers and of run_ssh_command
ssh_vars == <<vm_config, vm_defaults, client, apt_output>>

\* the locals of the discovery handlers
esxi_vars == <<service_instance, session, vms, lookup, powered_on_vms>>

vars == <<config, pc, request, ssh_vars, esxi_vars, raised, fault, calls, response,
          pending>>

(***************************************************************************)
(* Bounds of the model.                                                    *)
(***************************************************************************)
\* longest inventory the virtualization endpoint reports
MaxVMs == 2
\* most requests that wait for the event loop at one time
MaxPending == 2
\* most pieces of text a remote command's stdout is put together from
MaxChunks == 3

(***************************************************************************)
(* Python values and string functions.                                     *)
(***************************************************************************)
None == <<>>

Some(v) == <<v>>

Min(S) == CHOOSE x \in S : \A y \in S : x <= y

Max(S) == CHOOSE x \in S : \A y \in S : x >= y

\* Python `p in s` on strings
Contains(s, p) ==
    \E i \in 1..(Len(s) - Len(p) + 1) : SubSeq(s, i, i + Len(p) - 1) = p

CharAt(s, i) == SubSeq(s, i, i)

Whitespace == {" ", "\n", "\r", "\t", "\f"}

\* Python str.strip()
Strip(s) ==
    LET keep == {i \in 1..Len(s) : CharAt(s, i) \notin Whitespace}
    IN  IF keep = {} THEN "" ELSE SubSeq(s, Min(keep), Max(keep))

LineBreaks == {"\n", "\r", "\f"}

\* Python str.splitlines(): "\r\n" is one line break, no empty last line
RECURSIVE SplitLines(_)
SplitLines(s) ==
    IF s = "" THEN <<>>
    ELSE LET brk == {i \in 1..Len(s) : CharAt(s, i) \in LineBreaks}
         IN  IF brk = {} THEN <<s>>
             ELSE LET i == Min(brk)
                      j == IF CharAt(s, i) = "\r" /\ i < Len(s) /\ CharAt(s, i + 1) = "\n"
                           THEN i + 1 ELSE i
                  IN  <<SubSeq(s, 1, i - 1)>> \o SplitLines(SubSeq(s, j + 1, Len(s)))

\* Python sep.join(seq)
RECURSIVE Join(_, _)
Join(seq, sep) ==
    IF seq = <<>> THEN ""
    ELSE IF Len(seq) = 1 THEN seq[1]
    ELSE seq[1] \o sep \o Join(Tail(seq), sep)

\* concatenation of a sequence of pieces of text
RECURSIVE Concat(_)
Concat(seq) == IF seq = <<>> THEN "" ELSE seq[1] \o Concat(Tail(seq))

\* all sequences over S of length at most n
SeqUpTo(S, n) == UNION {[1..k -> S] : k \in 0..n}

(***************************************************************************)
(* Exceptions and responses.                                               *)
(***************************************************************************)
NoExc == [type |-> "none", status_code |-> 0, detail |-> ""]

HTTPException(status_code, detail) ==
    [type |-> "HTTPException", status_code |-> status_code, detail |-> detail]

\* an exception that is not an HTTPException, with its message
Exc(type, msg) == [type |-> type, status_code |-> 0, detail |-> msg]

\* str(e): starlette's HTTPException prints "<status_code>: <detail>"
StrExc(e) ==
    IF e.type = "HTTPException" THEN ToString(e.status_code) \o ": " \o e.detail
    ELSE e.detail

NoResponse == [status_code |-> 0, body |-> [none |-> TRUE]]

\* FastAPI's answer to an HTTPException that leaves the handler
ErrorResponse(e) == [status_code |-> e.status_code, body |-> [detail |-> e.detail]]

\* FastAPI's answer to any other exception that leaves the handler
InternalServerError == [status_code |-> 500, body |-> [detail |-> "Internal Server Error"]]

\* FastAPI's answer to a path no handler is registered for
NotFoundResponse == [status_code |-> 404, body |-> [detail |-> "Not Found"]]

OkResponse(body) == [status_code |-> 200, body |-> body]

(***************************************************************************)
(* config.json.  The file is missing (or unreadable), holds text that is   *)
(* not JSON, or holds a JSON object; the object may lack keys.             *)
(***************************************************************************)
FullConfig ==
    [esxi_host_ip |-> "127.0.0.1", esxi_username |-> "dummy_user",
     esxi_password |-> "dummy_password", default_vm_username |-> "testuser",
     default_vm_sudo_password |-> "testpassword"]

\* the object without the keys of K
Without(d, K) == [k \in (DOMAIN d) \ K |-> d[k]]

ConfigFiles ==
    {[state |-> "missing"], [state |-> "invalid"]}
    \cup {[state |-> "json", value |-> Without(FullConfig, K)] :
            K \in {{}, {"default_vm_username", "default_vm_sudo_password",
                        "esxi_password"}}}

\* Python dict.get(key, default)
Get(d, key, default) == IF key \in DOMAIN d THEN d[key] ELSE default

\* open("config.json") or json.load raises
ConfigUnavailable(cfg) == cfg.state # "json"

load_vm_defaults(cfg) ==
    [default_vm_username |-> Get(cfg.value, "default_vm_username", "root"),
     default_vm_sudo_password |-> Get(cfg.value, "default_vm_sudo_password", "password!")]

\* a loader that reports the unavailable file as a missing resource
load_vm_defaults_error_404 ==
    HTTPException(404, "Failed to load VM defaults from config.json")

load_vm_defaults_error ==
    HTTPException(500, "Failed to load VM defaults from config.json")

NoDefaults == [default_vm_username |-> "", default_vm_sudo_password |-> ""]

(***************************************************************************)
(* Requests.                                                               *)
(***************************************************************************)
\* the (method, path) pairs the application registers a handler for
Routes ==
    {<<"POST", "/vm/check_upgrades">>, <<"POST", "/vm/apply_upgrades">>,
     <<"POST", "/esxi/get_linux_vm_ip">>, <<"GET", "/esxi/list_powered_on_vms">>}

NoBody == [none |-> TRUE]

NoVMConfig == [ip_address |-> "", username |-> "", ssh_key_path |-> ""]

\* login names a caller may put in the body of an upgrade request
Usernames == {"ubuntu", "testuser"}

\* VM names of the inventory and of the queries; they differ in case only,
\* or in every letter
VMNames == {"MyTestLinuxVM", "mytestlinuxvm"}

VMConfigs ==
    [ip_address : {"192.168.1.100"}, username : Usernames,
     ssh_key_path : {"~/.ssh/openwebui_vm_key"}]

VMNameRequests == [vm_name : VMNames]

Requests ==
    {[method |-> "GET", path |-> "/", body |-> NoBody],
     [method |-> "GET", path |-> "/status", body |-> NoBody],
     [method |-> "GET", path |-> "/esxi/list_powered_on_vms", body |-> NoBody]}
    \cup [method : {"POST"}, path : {"/vm/check_upgrades", "/vm/apply_upgrades"},
          body : VMConfigs]
    \cup [method : {"POST"}, path : {"/esxi/get_linux_vm_ip"}, body : VMNameRequests]

NoRequest == [method |-> "", path |-> "", body |-> NoBody]

\* the first statement of the handler of a registered route
Entry(path) ==
    CASE path = "/vm/check_upgrades" -> "check_vm_upgrades"
      [] path = "/vm/apply_upgrades" -> "apply_vm_upgrades"
      [] path = "/esxi/get_linux_vm_ip" -> "get_linux_vm_ip_from_esxi"
      [] path = "/esxi/list_powered_on_vms" -> "list_powered_on_vms"

Call(op, args) == [op |-> op, args |-> args]

NoLookup == [kind |-> "none"]

NoFault == [step |-> "none", type |-> "none"]

Fault(step, type) == [step |-> step, type |-> type]

Init ==
    /\ config \in ConfigFiles
    /\ pc = "idle"
    /\ request = NoRequest
    /\ vm_config = NoVMConfig
    /\ vm_defaults = NoDefaults
    /\ client = "none"
    /\ service_instance = None
    /\ vms = <<>>
    /\ lookup = NoLookup
    /\ powered_on_vms = <<>>
    /\ session = "none"
    /\ apt_output = ""
    /\ raised = NoExc
    /\ fault = NoFault
    /\ calls = <<>>
    /\ response = NoResponse
    /\ pending = 0

\* config.json is rewritten by its owner between two requests (a handler
\* reads the file once, in one statement)
EditConfig ==
    /\ pc = "idle"
    /\ config' \in ConfigFiles \ {config}
    /\ UNCHANGED <<pc, request, ssh_vars, esxi_vars, raised, fault, calls, response,
                   pending>>

\* the event loop routes one request: the handler of a registered route
\* starts, any other path is answered 404
route_request ==
    /\ pc = "idle"
    /\ \E r \in Requests :
        /\ request' = r
        /\ vm_config' = IF r.path \in {"/vm/check_upgrades", "/vm/apply_upgrades"}
                        THEN r.body ELSE NoVMConfig
        /\ IF <<r.method, r.path>> \in Routes
           THEN pc' = Entry(r.path) /\ response' = NoResponse
           ELSE pc' = "done" /\ response' = NotFoundResponse
    /\ UNCHANGED <<config, vm_defaults, client, apt_output, esxi_vars, raised, fault, calls>>

\* the HTTP layer takes the next request and routes it
Dispatch ==
    /\ route_request
    /\ UNCHANGED pending

\* a client sends a request while the server runs; it waits for the event loop
Receive ==
    /\ pending < MaxPending
    /\ pending' = pending + 1
    /\ UNCHANGED <<config, pc, request, ssh_vars, esxi_vars, raised, fault, calls,
                   response>>

\* the event loop, free again, takes a waiting request and routes it
DispatchPending ==
    /\ pending > 0
    /\ pending' = pending - 1
    /\ route_request

\* the response is sent; the request and the handler's locals are gone
Respond ==
    /\ pc = "done"
    /\ pc' = "idle"
    /\ request' = NoRequest
    /\ vm_config' = NoVMConfig
    /\ vm_defaults' = NoDefaults
    /\ client' = "none"
    /\ service_instance' = None
    /\ vms' = <<>>
    /\ lookup' = NoLookup
    /\ powered_on_vms' = <<>>
    /\ session' = "none"
    /\ apt_output' = ""
    /\ raised' = NoExc
    /\ fault' = NoFault
    /\ calls' = <<>>
    /\ response' = NoResponse
    /\ UNCHANGED <<config, pending>>

(***************************************************************************)
(* Exception classes: the classes an exception of each type is an instance *)
(* of, as the except clauses test them.                                    *)
(***************************************************************************)
Bases(type) ==
    CASE type = "PasswordRequiredException" ->
            {"PasswordRequiredException", "AuthenticationException", "SSHException", "Exception"}
      [] type = "AuthenticationException" ->
            {"AuthenticationException", "SSHException", "Exception"}
      [] type = "SSHException" -> {"SSHException", "Exception"}
      [] type = "FileNotFoundError" -> {"FileNotFoundError", "OSError", "Exception"}
      [] type = "PermissionError" -> {"PermissionError", "OSError", "Exception"}
      [] type = "timeout" -> {"timeout", "OSError", "Exception"}
      [] OTHER -> {type, "Exception"}

IsInstance(e, cls) == cls \in Bases(e.type)

\* the message of an exception of the remote libraries
Message(type) ==
    CASE type = "PasswordRequiredException" -> "Private key file is encrypted"
      [] type = "AuthenticationException" -> "Authentication failed."
      [] type = "SSHException" -> "Error reading SSH protocol banner"
      [] type = "FileNotFoundError" -> "[Errno 2] No such file or directory"
      [] type = "PermissionError" -> "[Errno 13] Permission denied"
      [] type = "timeout" -> "timed out"
      [] type = "NoPermission" -> "Permission to perform this operation was denied."
      [] type = "InvalidLogin" -> "Cannot complete login due to an incorrect user name or password."
      [] type = "ConnectionRefusedError" -> "[Errno 111] Connection refused"
      [] OTHER -> type

Raise(type) == Exc(type, Message(type))

(***************************************************************************)
(* run_ssh_command: the remote command executor.                           *)
(***************************************************************************)
\* the home directory os.path.expanduser puts in the place of "~"
Home == "/root"

\* os.path.expanduser
ExpandUser(path) ==
    IF path = "~" \/ (Len(path) >= 2 /\ SubSeq(path, 1, 2) = "~/")
    THEN Home \o SubSeq(path, 2, Len(path))
    ELSE path

\* what paramiko.RSAKey.from_private_key_file does at the resolved path
KeyFileOutcomes ==
    {"ok", "FileNotFoundError", "PasswordRequiredException", "SSHException", "PermissionError"}

\* what client.connect does
ConnectOutcomes == {"ok", "AuthenticationException", "SSHException", "timeout"}

\* what client.exec_command and the reads of its streams do, short of an output
ExecFailures == {"SSHException", "timeout"}

\* the except clauses of run_ssh_command, in their order
run_ssh_command_except(e, cfg, resolved_key_path) ==
    IF IsInstance(e, "AuthenticationException")
    THEN HTTPException(401, "Authentication failed for " \o cfg.username \o "@"
                            \o cfg.ip_address \o ". Check SSH key/password.")
    ELSE IF IsInstance(e, "FileNotFoundError")
    THEN HTTPException(404, "SSH Key not found at " \o resolved_key_path
                            \o ". Ensure the key exists and path is correct.")
    ELSE IF IsInstance(e, "SSHException")
    THEN HTTPException(500, "SSH error connecting to " \o cfg.ip_address \o ": " \o StrExc(e))
    ELSE HTTPException(500, "An unexpected error occurred during SSH operation: " \o StrExc(e))

\* the pieces of text the remote host's stdout is put together from
CheckChunks ==
    {"Listing... Done\n",
     "vim/jammy 9.0 amd64 [upgradable from: 8.2]\n",
     "bash: newer is available\n",
     "All packages are up to date.\n",
     "0 packages can be upgraded.\n",
     "[upgradable ",
     "from: 1.0]\n"}

ApplyChunks ==
    {"Reading package lists... Done\n",
     "0 upgraded, 0 newly installed, 0 to remove and 0 not upgraded.\n",
     "0 to upgrade, 0 to newly install\n",
     "0 packages upgraded\n",
     "3 upgraded, 1 newly installed, 0 to remove and 0 not upgraded.\n",
     "1"}

\* the remote host answers a command with the output of the apt run it asks for
Stdouts(command) ==
    LET chunks == IF Contains(command, "apt list --upgradable")
                  THEN CheckChunks ELSE ApplyChunks
    IN  {Concat(c) : c \in SeqUpTo(chunks, MaxChunks)}

check_command(sudo_password) ==
    "echo '" \o sudo_password \o "' | sudo -S apt update && apt list --upgradable"

apply_command(sudo_password) ==
    "echo '" \o sudo_password \o "' | sudo -S apt update && echo '" \o sudo_password
    \o "' | sudo -S apt upgrade -y"

\* the command argument of the running call of run_ssh_command
command ==
    IF request.path = "/vm/check_upgrades"
    THEN check_command(vm_defaults.default_vm_sudo_password)
    ELSE apply_command(vm_defaults.default_vm_sudo_password)

resolved_key_path == ExpandUser(vm_config.ssh_key_path)

\* the handler's statement after its call of run_ssh_command
\* a caller that runs the executor a second time when the first run failed
AfterSSH_retry ==
    IF raised # NoExc /\ Len(calls) <= 1 THEN "run_ssh_command"
    ELSE IF request.path = "/vm/check_upgrades" THEN "check_vm_upgrades_return"
    ELSE "apply_vm_upgrades_return"

AfterSSH ==
    IF request.path = "/vm/check_upgrades" THEN "check_vm_upgrades_return"
    ELSE "apply_vm_upgrades_return"

\* client = paramiko.SSHClient() ... private_key = RSAKey.from_private_key_file(...)
run_ssh_command_key ==
    /\ pc = "run_ssh_command"
    /\ client' = "created"
    /\ \E o \in KeyFileOutcomes :
        IF o = "ok"
        THEN pc' = "ssh_connect" /\ raised' = NoExc /\ fault' = fault
        ELSE /\ pc' = "ssh_finally" /\ raised' = Raise(o)
             /\ fault' = Fault("from_private_key_file", o)
    /\ UNCHANGED <<pending, config, request, vm_config, vm_defaults, apt_output, esxi_vars,
                   calls, response>>

\* client.connect(hostname=..., username=..., pkey=..., timeout=10)
run_ssh_command_connect ==
    /\ pc = "ssh_connect"
    /\ calls' = Append(calls, Call("connect", [hostname |-> vm_config.ip_address,
                                                username |-> vm_config.username]))
    /\ \E o \in ConnectOutcomes :
        IF o = "ok"
        THEN /\ pc' = "ssh_exec" /\ client' = "connected"
             /\ raised' = NoExc /\ fault' = fault
        ELSE /\ pc' = "ssh_finally" /\ client' = client
             /\ raised' = Raise(o) /\ fault' = Fault("connect", o)
    /\ UNCHANGED <<pending, config, request, vm_config, vm_defaults, apt_output, esxi_vars,
                   response>>

\* client.exec_command(command, timeout=300); output = stdout.read().decode().strip()
run_ssh_command_exec ==
    /\ pc = "ssh_exec"
    /\ calls' = Append(calls, Call("exec_command", [command |-> command]))
    /\ \/ \E out \in Stdouts(command) :
            /\ apt_output' = Strip(out)
            /\ raised' = NoExc
            /\ fault' = fault
       \/ \E o \in ExecFailures :
            /\ apt_output' = apt_output
            /\ raised' = Raise(o)
            /\ fault' = Fault("exec_command", o)
    /\ pc' = "ssh_finally"
    /\ UNCHANGED <<pending, config, request, vm_config, vm_defaults, client, esxi_vars, response>>

\* the except clauses, and finally: client.close()
run_ssh_command_finally ==
    /\ pc = "ssh_finally"
    /\ raised' = IF raised = NoExc THEN NoExc
                 ELSE run_ssh_command_except(raised, vm_config, resolved_key_path)
    /\ client' = "closed"
    /\ calls' = Append(calls, Call("close", [client |-> "ssh"]))
    /\ pc' = AfterSSH
    /\ UNCHANGED <<pending, config, request, vm_config, vm_defaults, apt_output, esxi_vars,
                   fault, response>>

(***************************************************************************)
(* POST /vm/check_upgrades and POST /vm/apply_upgrades.                    *)
(***************************************************************************)
\* a handler that forgets to force the login name
keep_caller_username(cfg, defaults) == cfg

\* vm_config.username = vm_defaults["default_vm_username"]
force_username(cfg, defaults) == [cfg EXCEPT !.username = defaults.default_vm_username]

\* a list comprehension that tests one of the two phrases only
is_upgradable_one_phrase(line) == Contains(line, "upgradable from")

\* the test of the list comprehension of check_vm_upgrades
is_upgradable(line) ==
    Contains(line, "upgradable from") \/ Contains(line, "newer is available")

\* the body check_vm_upgrades returns for an output of the check command
check_vm_upgrades_result(output) ==
    LET upgradable_packages == SelectSeq(SplitLines(output), is_upgradable)
    IN  IF upgradable_packages # <<>>
        THEN [status |-> "upgrades_available", package_manager |-> "apt",
              details |-> "Found the following upgradable packages via apt:\n"
                          \o Join(upgradable_packages, "\n")]
        ELSE IF Contains(output, "All packages are up to date")
                \/ Contains(output, "0 packages can be upgraded")
        THEN [status |-> "no_upgrades", package_manager |-> "apt",
              details |-> "No upgradable packages found via apt. System is up-to-date."]
        ELSE [status |-> "no_upgrades", package_manager |-> "apt",
              details |-> "Apt update ran, but no explicit upgradable packages identified. Your system is likely up-to-date."]

\* a test that knows two of the three phrasings only
nothing_upgraded_two_phrases(output) ==
    \/ Contains(output, "0 upgraded, 0 newly installed")
    \/ Contains(output, "0 to upgrade, 0 to newly install")

\* the test of apply_vm_upgrades for a run that changed nothing
nothing_upgraded(output) ==
    \/ Contains(output, "0 upgraded, 0 newly installed")
    \/ Contains(output, "0 to upgrade, 0 to newly install")
    \/ Contains(output, "0 packages upgraded")

\* the body apply_vm_upgrades returns for an output of the apply command
apply_vm_upgrades_result(output) ==
    IF nothing_upgraded(output)
    THEN [status |-> "no_upgrades_applied", package_manager |-> "apt",
          details |-> "No new packages were upgraded or installed by apt. System was already up-to-date or no new upgrades were available."]
    ELSE [status |-> "success", package_manager |-> "apt", details |-> output]

\* the except clauses of check_vm_upgrades
check_vm_upgrades_except(e, cfg) ==
    IF IsInstance(e, "HTTPException")
    THEN HTTPException(500, "Failed to check upgrades on " \o cfg.ip_address
                            \o " using apt: " \o e.detail)
    ELSE HTTPException(500, "An unexpected error occurred during apt upgrade check: "
                            \o StrExc(e))

\* the except clauses of apply_vm_upgrades
apply_vm_upgrades_except(e, cfg) ==
    IF IsInstance(e, "HTTPException")
    THEN HTTPException(500, "Failed to apply upgrades on " \o cfg.ip_address
                            \o " using apt: " \o e.detail)
    ELSE HTTPException(500, "An unexpected error occurred during apt upgrade application: "
                            \o StrExc(e))

\* the statements of an upgrade handler before its try block: the defaults are
\* loaded (a failure leaves the handler at once) and the login name is forced
UpgradeBegin ==
    IF ConfigUnavailable(config)
    THEN /\ response' = ErrorResponse(load_vm_defaults_error)
         /\ pc' = "done"
         /\ UNCHANGED <<vm_config, vm_defaults>>
    ELSE /\ vm_defaults' = load_vm_defaults(config)
         /\ vm_config' = force_username(vm_config, vm_defaults')
         /\ pc' = "run_ssh_command"
         /\ UNCHANGED response

check_vm_upgrades_begin ==
    /\ pc = "check_vm_upgrades"
    /\ UpgradeBegin
    /\ UNCHANGED <<pending, config, request, client, apt_output, esxi_vars, raised, fault, calls>>

check_vm_upgrades_return ==
    /\ pc = "check_vm_upgrades_return"
    /\ response' = IF raised = NoExc
                   THEN OkResponse(check_vm_upgrades_result(apt_output))
                   ELSE ErrorResponse(check_vm_upgrades_except(raised, vm_config))
    /\ pc' = "done"
    /\ UNCHANGED <<pending, config, request, ssh_vars, esxi_vars, raised, fault, calls>>

apply_vm_upgrades_begin ==
    /\ pc = "apply_vm_upgrades"
    /\ UpgradeBegin
    /\ UNCHANGED <<pending, config, request, client, apt_output, esxi_vars, raised, fault, calls>>

apply_vm_upgrades_return ==
    /\ pc = "apply_vm_upgrades_return"
    /\ response' = IF raised = NoExc
                   THEN OkResponse(apply_vm_upgrades_result(apt_output))
                   ELSE ErrorResponse(apply_vm_upgrades_except(raised, vm_config))
    /\ pc' = "done"
    /\ UNCHANGED <<pending, config, request, ssh_vars, esxi_vars, raised, fault, calls>>

(***************************************************************************)
(* The virtualization inventory.  A VM object has a name, a guest summary  *)
(* (vm.summary.guest, which may be None; its guestFullName and ipAddress   *)
(* may be None too) and a power state (vm.summary.runtime.powerState).     *)
(***************************************************************************)
GuestFullNames ==
    {None, Some("Ubuntu 22.04"), Some("CentOS Linux (64-bit)"), Some("Windows (64-bit)")}

IPAddresses == {None, Some("192.168.1.10")}

Guests == {None} \cup {Some(g) : g \in [guestFullName : GuestFullNames, ipAddress : IPAddresses]}

PowerStates == {"poweredOn", "poweredOff", "suspended"}

VMObjects == [name : VMNames, guest : Guests, powerState : PowerStates]

Inventories == SeqUpTo(VMObjects, MaxVMs)

\* what a call of the virtualization endpoint raises when it fails
EsxiFaults == {"NoPermission", "ConnectionRefusedError"}

\* what connect.SmartConnect does: a session, a falsy value, or a fault
SmartConnectOutcomes == {"ok", "None", "NoPermission", "InvalidLogin", "ConnectionRefusedError"}

load_esxi_config_error == HTTPException(500, "Failed to load ESXi config from config.json")

EsxiKeys == {"esxi_host_ip", "esxi_username", "esxi_password"}

\* a disconnect written as the last statement of the try block: skipped when
\* an exception is on its way out
has_session_and_no_exception(si) == si # None /\ raised = NoExc

\* finally: if service_instance: connect.Disconnect(service_instance)
has_session(si) == si # None

SmartConnectCall(cfg) ==
    Call("SmartConnect", [host |-> cfg.esxi_host_ip, user |-> cfg.esxi_username])

(***************************************************************************)
(* POST /esxi/get_linux_vm_ip.                                             *)
(***************************************************************************)
\* guest_os = vm.summary.guest.guestFullName if vm.summary.guest else "Unknown"
guest_os_of(vm) == IF vm.guest # None THEN vm.guest[1].guestFullName ELSE Some("Unknown")

\* "Linux" in guest_os or "Ubuntu" in guest_os
is_linux(guest_os) == Contains(guest_os, "Linux") \/ Contains(guest_os, "Ubuntu")

\* the for loop over vms: the index of the VM the loop leaves with (found_vm),
\* 0 when it runs to its end, or the exception a name match makes it raise
RECURSIVE find_vm(_, _, _)
find_vm(inventory, vm_name, i) ==
    IF i > Len(inventory) THEN [found |-> 0, raised |-> NoExc]
    ELSE IF inventory[i].name = vm_name
    THEN LET guest_os == guest_os_of(inventory[i])
         IN  IF guest_os = None
             THEN [found |-> 0,
                   raised |-> Exc("TypeError", "argument of type 'NoneType' is not iterable")]
             ELSE IF is_linux(guest_os[1])
             THEN [found |-> i, raised |-> NoExc]
             ELSE [found |-> 0,
                   raised |-> HTTPException(400, "VM '" \o vm_name
                                 \o "' is not a Linux VM (detected OS: " \o guest_os[1] \o ").")]
    ELSE find_vm(inventory, vm_name, i + 1)

\* the scan of get_linux_vm_ip_from_esxi and what follows it in the try block:
\* the kind of the outcome, the body returned or the exception raised
get_linux_vm_ip_lookup(inventory, vm_name) ==
    LET scan == find_vm(inventory, vm_name, 1)
    IN  IF scan.raised # NoExc
        THEN [kind |-> IF scan.raised.type = "HTTPException" THEN "NotLinux" ELSE "TypeError",
              raised |-> scan.raised, body |-> NoBody]
        ELSE IF scan.found # 0
        THEN LET found_vm == inventory[scan.found]
                 ip_address == found_vm.guest[1].ipAddress
             IN  IF ip_address # None /\ ip_address # Some("")
                 THEN [kind |-> "Found", raised |-> NoExc,
                       body |-> [status |-> "success", vm_name |-> found_vm.name,
                                 ip_address |-> ip_address,
                                 guest_os |-> found_vm.guest[1].guestFullName,
                                 powerState |-> found_vm.powerState]]
                 ELSE [kind |-> "NoIPReported",
                       raised |-> HTTPException(404, "VM '" \o vm_name
                           \o "' found, but no IP address reported. Ensure VMware Tools are installed and running."),
                       body |-> NoBody]
        ELSE [kind |-> "NotFound",
              raised |-> HTTPException(404, "VM '" \o vm_name \o "' not found on ESXi/vCenter."),
              body |-> NoBody]

\* the except clauses of the outer try block of get_linux_vm_ip_from_esxi
get_linux_vm_ip_except(e) ==
    IF IsInstance(e, "NoPermission")
    THEN HTTPException(403, "Permission denied for ESXi/vCenter. Check credentials and user roles.")
    ELSE HTTPException(500, "Failed to retrieve VM IP from ESXi/vCenter: " \o StrExc(e))

\* the except clause of the inner try block, around SmartConnect
get_linux_vm_ip_connect_except(e) ==
    HTTPException(500, "Error connecting to ESXi/vCenter: " \o StrExc(e))

\* config.json is read; ESXiVMDiscoveryConfig is built from its three keys
get_linux_vm_ip_begin ==
    /\ pc = "get_linux_vm_ip_from_esxi"
    /\ IF ConfigUnavailable(config)
       THEN pc' = "done" /\ response' = ErrorResponse(load_esxi_config_error)
       ELSE IF ~(EsxiKeys \subseteq DOMAIN config.value)
       THEN pc' = "done" /\ response' = InternalServerError
       ELSE pc' = "ip_connect" /\ response' = response
    /\ UNCHANGED <<pending, config, request, ssh_vars, esxi_vars, raised, fault, calls>>

\* service_instance = connect.SmartConnect(...), inside the inner try block
get_linux_vm_ip_connect ==
    /\ pc = "ip_connect"
    /\ calls' = Append(calls, SmartConnectCall(config.value))
    /\ \E o \in SmartConnectOutcomes :
        CASE o = "ok" ->
                /\ service_instance' = Some("si") /\ session' = "open"
                /\ raised' = NoExc /\ fault' = fault /\ pc' = "ip_content"
          [] o = "None" ->
                /\ service_instance' = None /\ session' = session
                /\ raised' = get_linux_vm_ip_connect_except(
                                HTTPException(500, "Failed to connect to ESXi/vCenter Server."))
                /\ fault' = Fault("SmartConnect", "None") /\ pc' = "ip_finally"
          [] OTHER ->
                /\ service_instance' = None /\ session' = session
                /\ raised' = get_linux_vm_ip_connect_except(Raise(o))
                /\ fault' = Fault("SmartConnect", o) /\ pc' = "ip_finally"
    /\ UNCHANGED <<pending, config, request, ssh_vars, vms, lookup, powered_on_vms, response>>

\* content = service_instance.RetrieveContent()
get_linux_vm_ip_content ==
    /\ pc = "ip_content"
    /\ calls' = Append(calls, Call("RetrieveContent", [session |-> "si"]))
    /\ \/ /\ pc' = "ip_view" /\ UNCHANGED <<raised, fault>>
       \/ \E o \in EsxiFaults :
            /\ raised' = Raise(o) /\ fault' = Fault("RetrieveContent", o)
            /\ pc' = "ip_finally"
    /\ UNCHANGED <<pending, config, request, ssh_vars, esxi_vars, response>>

\* vm_view = content.viewManager.CreateContainerView(...); vms = vm_view.view;
\* the scan for the name, and the return or raise that ends the try block
get_linux_vm_ip_view ==
    /\ pc = "ip_view"
    /\ calls' = Append(calls, Call("CreateContainerView", [session |-> "si"]))
    /\ \/ \E inventory \in Inventories :
            /\ vms' = inventory
            /\ lookup' = get_linux_vm_ip_lookup(inventory, request.body.vm_name)
            /\ raised' = lookup'.raised
            /\ fault' = fault
       \/ \E o \in EsxiFaults :
            /\ raised' = Raise(o) /\ fault' = Fault("CreateContainerView", o)
            /\ UNCHANGED <<vms, lookup>>
    /\ pc' = "ip_finally"
    /\ UNCHANGED <<pending, config, request, ssh_vars, service_instance, session,
                   powered_on_vms, response>>

\* the except clauses of the outer try block, then finally:
\* connect.Disconnect(service_instance) if there is a session
get_linux_vm_ip_finally ==
    /\ pc = "ip_finally"
    /\ response' = IF raised = NoExc THEN OkResponse(lookup.body)
                   ELSE ErrorResponse(get_linux_vm_ip_except(raised))
    /\ IF has_session(service_instance)
       THEN /\ calls' = Append(calls, Call("Disconnect", [session |-> "si"]))
            /\ session' = "closed"
       ELSE UNCHANGED <<calls, session>>
    /\ pc' = "done"
    /\ UNCHANGED <<pending, config, request, ssh_vars, service_instance, vms, lookup,
                   powered_on_vms, raised, fault>>

(***************************************************************************)
(* GET /esxi/list_powered_on_vms.                                          *)
(***************************************************************************)
\* the entry list_powered_on_vms appends for a VM
powered_on_entry(vm) ==
    [vm_name |-> vm.name,
     ip_address |-> IF vm.guest # None THEN vm.guest[1].ipAddress ELSE None,
     guest_os |-> guest_os_of(vm),
     powerState |-> vm.powerState]

\* a filter that only leaves out the VMs that are powered off
is_not_powered_off(vm) == vm.powerState # "poweredOff"

\* power_state == "poweredOn"
is_powered_on(vm) == vm.powerState = "poweredOn"

\* the for loop of list_powered_on_vms
RECURSIVE filter_powered_on(_)
filter_powered_on(inventory) ==
    IF inventory = <<>> THEN <<>>
    ELSE (IF is_powered_on(Head(inventory)) THEN <<powered_on_entry(Head(inventory))>> ELSE <<>>)
         \o filter_powered_on(Tail(inventory))

\* the except clauses of list_powered_on_vms
list_powered_on_vms_except(e) ==
    IF IsInstance(e, "NoPermission")
    THEN HTTPException(403, "Permission denied for ESXi/vCenter. Check credentials and user roles.")
    ELSE HTTPException(500, "Failed to retrieve powered-on VMs: " \o StrExc(e))

\* config.json is read, before the try block
list_powered_on_vms_begin ==
    /\ pc = "list_powered_on_vms"
    /\ IF ConfigUnavailable(config)
       THEN pc' = "done" /\ response' = ErrorResponse(load_esxi_config_error)
       ELSE pc' = "list_connect" /\ response' = response
    /\ UNCHANGED <<pending, config, request, ssh_vars, esxi_vars, raised, fault, calls>>

\* service_instance = connect.SmartConnect(...), in the try block; a key the
\* configuration lacks raises KeyError before the call is made
list_powered_on_vms_connect ==
    /\ pc = "list_connect"
    /\ IF ~(EsxiKeys \subseteq DOMAIN config.value)
       THEN /\ raised' = Exc("KeyError", "'esxi_password'")
            /\ pc' = "list_finally"
            /\ UNCHANGED <<calls, service_instance, session, fault>>
       ELSE /\ calls' = Append(calls, SmartConnectCall(config.value))
            /\ \E o \in SmartConnectOutcomes :
                CASE o = "ok" ->
                        /\ service_instance' = Some("si") /\ session' = "open"
                        /\ raised' = NoExc /\ fault' = fault /\ pc' = "list_content"
                  [] o = "None" ->
                        /\ service_instance' = None /\ session' = session
                        /\ raised' = NoExc /\ fault' = Fault("SmartConnect", "None")
                        /\ pc' = "list_content"
                  [] OTHER ->
                        /\ service_instance' = None /\ session' = session
                        /\ raised' = Raise(o) /\ fault' = Fault("SmartConnect", o)
                        /\ pc' = "list_finally"
    /\ UNCHANGED <<pending, config, request, ssh_vars, vms, lookup, powered_on_vms, response>>

\* content = service_instance.RetrieveContent(); None has no such attribute
list_powered_on_vms_content ==
    /\ pc = "list_content"
    /\ IF service_instance = None
       THEN /\ raised' = Exc("AttributeError",
                             "'NoneType' object has no attribute 'RetrieveContent'")
            /\ pc' = "list_finally"
            /\ UNCHANGED <<calls, fault>>
       ELSE /\ calls' = Append(calls, Call("RetrieveContent", [session |-> "si"]))
            /\ \/ /\ pc' = "list_view" /\ UNCHANGED <<raised, fault>>
               \/ \E o \in EsxiFaults :
                    /\ raised' = Raise(o) /\ fault' = Fault("RetrieveContent", o)
                    /\ pc' = "list_finally"
    /\ UNCHANGED <<pending, config, request, ssh_vars, esxi_vars, response>>

\* vm_view = ...CreateContainerView(...); vms = vm_view.view; the for loop
list_powered_on_vms_view ==
    /\ pc = "list_view"
    /\ calls' = Append(calls, Call("CreateContainerView", [session |-> "si"]))
    /\ \/ \E inventory \in Inventories :
            /\ vms' = inventory
            /\ powered_on_vms' = filter_powered_on(inventory)
            /\ UNCHANGED <<raised, fault>>
       \/ \E o \in EsxiFaults :
            /\ raised' = Raise(o) /\ fault' = Fault("CreateContainerView", o)
            /\ UNCHANGED <<vms, powered_on_vms>>
    /\ pc' = "list_finally"
    /\ UNCHANGED <<pending, config, request, ssh_vars, service_instance, session, lookup, response>>

\* the return or the except clauses, then finally: connect.Disconnect
list_powered_on_vms_finally ==
    /\ pc = "list_finally"
    /\ response' = IF raised = NoExc
                   THEN OkResponse([status |-> "success", powered_on_vms |-> powered_on_vms])
                   ELSE ErrorResponse(list_powered_on_vms_except(raised))
    /\ IF has_session(service_instance)
       THEN /\ calls' = Append(calls, Call("Disconnect", [session |-> "si"]))
            /\ session' = "closed"
       ELSE UNCHANGED <<calls, session>>
    /\ pc' = "done"
    /\ UNCHANGED <<pending, config, request, ssh_vars, service_instance, vms, lookup,
                   powered_on_vms, raised, fault>>

Next ==
    \/ EditConfig
    \/ Dispatch
    \/ Respond
    \/ check_vm_upgrades_begin
    \/ apply_vm_upgrades_begin
    \/ run_ssh_command_key
    \/ run_ssh_command_connect
    \/ run_ssh_command_exec
    \/ run_ssh_command_finally
    \/ check_vm_upgrades_return
    \/ apply_vm_upgrades_return
    \/ get_linux_vm_ip_begin
    \/ get_linux_vm_ip_connect
    \/ get_linux_vm_ip_content
    \/ get_linux_vm_ip_view
    \/ get_linux_vm_ip_finally
    \/ list_powered_on_vms_begin
    \/ list_powered_on_vms_connect
    \/ list_powered_on_vms_content
    \/ list_powered_on_vms_view
    \/ list_powered_on_vms_finally

Spec == Init /\ [][Next]_vars

\* the service with several clients: requests arrive at any time and every
\* handler, an async def without an await, runs on the one event loop
NextQueued ==
    \/ EditConfig
    \/ Receive
    \/ DispatchPending
    \/ Respond
    \/ check_vm_upgrades_begin
    \/ apply_vm_upgrades_begin
    \/ run_ssh_command_key
    \/ run_ssh_command_connect
    \/ run_ssh_command_exec
    \/ run_ssh_command_finally
    \/ check_vm_upgrades_return
    \/ apply_vm_upgrades_return
    \/ get_linux_vm_ip_begin
    \/ get_linux_vm_ip_connect
    \/ get_linux_vm_ip_content
    \/ get_linux_vm_ip_view
    \/ get_linux_vm_ip_finally
    \/ list_powered_on_vms_begin
    \/ list_powered_on_vms_connect
    \/ list_powered_on_vms_content
    \/ list_powered_on_vms_view
    \/ list_powered_on_vms_finally

SpecQueued == Init /\ [][NextQueued]_vars

(***************************************************************************)
(* Properties.  A handler's outcome is read in the state pc = "done": the  *)
(* response is built and the handler's locals are still there.             *)
(***************************************************************************)
Done(path) == pc = "done" /\ request.path = path

\* the k for which the i-th element is the k-th element of the index set S
Rank(S, i) == Cardinality({j \in S : j <= i})

\* C1: the failure kind the lookup of POST /esxi/get_linux_vm_ip decides is the
\* status the caller receives: NotFound is answered 404 with a detail that
\* contains "not found", NotLinux 400, NoIPReported 404.
C1_LookupStatusReachesCaller ==
    (Done("/esxi/get_linux_vm_ip") /\ lookup.kind \in {"NotFound", "NotLinux", "NoIPReported"})
    => /\ response.status_code = lookup.raised.status_code
       /\ lookup.kind = "NotFound"
            => response.status_code = 404 /\ Contains(response.body.detail, "not found")
       /\ lookup.kind = "NotLinux" => response.status_code = 400
       /\ lookup.kind = "NoIPReported" => response.status_code = 404

\* the indexes of the records of the retrieved inventory whose name is the query
NameMatches == {i \in 1..Len(vms) : vms[i].name = request.body.vm_name}

\* the guest-OS text of a record, "" when it reports none
GuestOSText(vm) ==
    IF vm.guest = None \/ vm.guest[1].guestFullName = None THEN ""
    ELSE vm.guest[1].guestFullName[1]

\* C2: the lookup is decided by the first record, in inventory order, whose name
\* equals the query: NotFound without one; NotLinux when its guest-OS text
\* contains neither "Linux" nor "Ubuntu"; NoIPReported when it is Linux without
\* a guest IP; otherwise success with that record's name, IP, guest OS and
\* power state.
C2_FirstNameMatchDecides ==
    (pc \in {"ip_finally", "done"} /\ request.path = "/esxi/get_linux_vm_ip"
        /\ fault = NoFault /\ session # "none")
    => IF NameMatches = {} THEN lookup.kind = "NotFound"
       ELSE LET vm == vms[Min(NameMatches)]
                text == GuestOSText(vm)
            IN  IF ~Contains(text, "Linux") /\ ~Contains(text, "Ubuntu")
                THEN lookup.kind = "NotLinux"
                ELSE IF vm.guest[1].ipAddress = None
                THEN lookup.kind = "NoIPReported"
                ELSE /\ lookup.kind = "Found"
                     /\ lookup.body = [status |-> "success", vm_name |-> vm.name,
                                       ip_address |-> vm.guest[1].ipAddress,
                                       guest_os |-> vm.guest[1].guestFullName,
                                       powerState |-> vm.powerState]

\* the indexes of the powered-on records of the retrieved inventory
PoweredOn == {i \in 1..Len(vms) : vms[i].powerState = "poweredOn"}

\* the IP a record reports: that of its guest summary, absent without one
ReportedIP(vm) == IF vm.guest = None THEN None ELSE vm.guest[1].ipAddress

\* the guest OS a record reports: that of its guest summary, and no_summary_os
\* for a record without a guest summary
ReportedOS(vm, no_summary_os) ==
    IF vm.guest = None THEN no_summary_os ELSE vm.guest[1].guestFullName

\* the list of a 200 answer has one entry per powered-on record, in inventory
\* order, and each entry has the record's name, power state, IP and guest OS
ListIs(no_summary_os) ==
    LET list == response.body.powered_on_vms
    IN  /\ Len(list) = Cardinality(PoweredOn)
        /\ \A i \in PoweredOn :
              list[Rank(PoweredOn, i)] =
                  [vm_name |-> vms[i].name, ip_address |-> ReportedIP(vms[i]),
                   guest_os |-> ReportedOS(vms[i], no_summary_os),
                   powerState |-> vms[i].powerState]

Listed == Done("/esxi/list_powered_on_vms") /\ response.status_code = 200

\* C3, as claimed: GET /esxi/list_powered_on_vms returns exactly the records
\* whose power state is "poweredOn", each with the record's IP and guest OS
\* verbatim, an absent IP or guest OS passed through as absent.
C3_AbsentPassedThrough == Listed => ListIs(None)

\* C3, amended: GET /esxi/list_powered_on_vms returns exactly the records whose
\* power state is "poweredOn"; an entry carries the IP and guest OS of the
\* record's guest summary verbatim (absent when the summary lacks them), and a
\* record with no guest summary is listed with an absent IP and the guest OS
\* "Unknown".
C3_PoweredOnExactly == Listed => ListIs(Some("Unknown"))

\* C3 witness: a list answered from an inventory with a powered-on record that
\* has no guest summary and a suspended record: one entry, guest OS "Unknown"
C3_Witness ==
    /\ Listed
    /\ \E i \in PoweredOn : vms[i].guest = None
    /\ \E i \in 1..Len(vms) : vms[i].powerState = "suspended"
    /\ Len(response.body.powered_on_vms) = 1
    /\ response.body.powered_on_vms[1].guest_os = Some("Unknown")

\* C2 failing state: the first name match has a guest summary without a
\* guest-OS text, and the scan ends in a TypeError
C2_Witness ==
    /\ Done("/esxi/get_linux_vm_ip")
    /\ lookup.kind = "TypeError"
    /\ response.status_code = 500

Checked == Done("/vm/check_upgrades") /\ response.status_code = 200

Applied == Done("/vm/apply_upgrades") /\ response.status_code = 200

\* the indexes of the lines of the check command's output that name an upgrade
UpgradeLines ==
    LET lines == SplitLines(apt_output)
    IN  {i \in 1..Len(lines) : Contains(lines[i], "upgradable from")
                               \/ Contains(lines[i], "newer is available")}

\* C4: the check classification is upgrades_available exactly when a line of the
\* output contains "upgradable from" or "newer is available" (whatever else the
\* output says); the details are then a heading followed by the matching lines,
\* all of them and no other line, in their order; every other output is
\* classified no_upgrades.
C4_CheckClassification ==
    Checked =>
        LET lines == SplitLines(apt_output)
            shown == SplitLines(response.body.details)
        IN  IF UpgradeLines = {} THEN response.body.status = "no_upgrades"
            ELSE /\ response.body.status = "upgrades_available"
                 /\ Len(shown) = 1 + Cardinality(UpgradeLines)
                 /\ shown[1] = "Found the following upgradable packages via apt:"
                 /\ \A i \in UpgradeLines : shown[1 + Rank(UpgradeLines, i)] = lines[i]

\* C4 witness: an output with two matching lines around an up-to-date line
C4_Witness ==
    /\ Checked
    /\ response.body.status = "upgrades_available"
    /\ Contains(apt_output, "All packages are up to date")
    /\ UpgradeLines = {1, 3}

\* one of the three phrasings of an apply run that changed nothing
NothingChanged(output) ==
    \E phrase \in {"0 upgraded, 0 newly installed", "0 to upgrade, 0 to newly install",
                   "0 packages upgraded"} : Contains(output, phrase)

\* C5: the apply classification is no_upgrades_applied when the output contains
\* one of the three "nothing changed" phrasings, and success with the output
\* itself as details for every other output.
C5_ApplyClassification ==
    Applied =>
        IF NothingChanged(apt_output) THEN response.body.status = "no_upgrades_applied"
        ELSE response.body.status = "success" /\ response.body.details = apt_output

\* C5 witness: an apply run that upgraded packages, answered with its output
C5_Witness ==
    /\ Applied
    /\ response.body.status = "success"
    /\ Contains(response.body.details, "3 upgraded, 1 newly installed")

\* C6: a "nothing to do" answer carries the marker phrase of the output that
\* caused it in its details: "All packages are up to date" for no_upgrades,
\* "0 upgraded, 0 newly installed" for no_upgrades_applied.
C6_DetailsCarryMarker ==
    /\ (Checked /\ response.body.status = "no_upgrades"
            /\ Contains(apt_output, "All packages are up to date"))
        => Contains(response.body.details, "All packages are up to date")
    /\ (Applied /\ response.body.status = "no_upgrades_applied"
            /\ Contains(apt_output, "0 upgraded, 0 newly installed"))
        => Contains(response.body.details, "0 upgraded, 0 newly installed")

\* C6 failing state: the check command reports an up-to-date system
C6_Witness ==
    /\ Checked
    /\ apt_output = "All packages are up to date.\n0 packages can be upgraded."
    /\ response.body.status = "no_upgrades"

UpgradePaths == {"/vm/check_upgrades", "/vm/apply_upgrades"}

DiscoveryPaths == {"/esxi/get_linux_vm_ip", "/esxi/list_powered_on_vms"}

\* C7: a failure of the remote command executor keeps its status up to the
\* caller of the upgrade endpoints: 401 for an SSH authentication failure, 404
\* for a key file missing at the resolved path, 500 for any other failure.
C7_ExecutorStatusReachesCaller ==
    (pc = "done" /\ request.path \in UpgradePaths /\ fault # NoFault)
    => response.status_code =
          IF "AuthenticationException" \in Bases(fault.type) THEN 401
          ELSE IF fault.type = "FileNotFoundError" THEN 404
          ELSE 500

\* C7 failing state: the executor raised 401, the caller is answered 500
C7_Witness ==
    /\ pc = "done" /\ request.path \in UpgradePaths
    /\ fault.type = "AuthenticationException"
    /\ raised.status_code = 401
    /\ response.status_code = 500

\* C8: in both discovery operations a permission-denied fault of the
\* virtualization endpoint, at whatever step (SmartConnect, RetrieveContent,
\* CreateContainerView), is answered 403, and every other failure 500.
C8_PermissionDeniedIs403 ==
    (pc = "done" /\ request.path \in DiscoveryPaths /\ fault # NoFault)
    => response.status_code = IF fault.type = "NoPermission" THEN 403 ELSE 500

\* C8 failing state: permission denied while the session of a lookup is opened
C8_Witness ==
    /\ Done("/esxi/get_linux_vm_ip")
    /\ fault = Fault("SmartConnect", "NoPermission")
    /\ response.status_code = 500

\* C9: GET / is answered 200 with a body that has a "message" key, and
\* GET /status is answered 200 with the body {status: "running"}.
C9_RootAndStatusAnswer ==
    /\ Done("/") => response.status_code = 200 /\ "message" \in DOMAIN response.body
    /\ Done("/status") => response.status_code = 200 /\ response.body = [status |-> "running"]

\* C9 failing state: GET /status finds no handler
C9_Witness == Done("/status") /\ response = NotFoundResponse

\* the login name the configuration gives: default_vm_username, or "root"
ConfiguredLogin ==
    IF "default_vm_username" \in DOMAIN config.value
    THEN config.value.default_vm_username ELSE "root"

\* C10: every SSH connect call of an upgrade request is made with the login name
\* of the configuration (default_vm_username, "root" without that key),
\* whatever username the request body carries.
C10_LoginFromConfiguration ==
    \A i \in 1..Len(calls) :
        calls[i].op = "connect" => calls[i].args.username = ConfiguredLogin

\* C10 witness: a connect call of a request whose body names another login
C10_Witness ==
    /\ request.path \in UpgradePaths
    /\ request.body.username = "ubuntu"
    /\ \E i \in 1..Len(calls) : calls[i].op = "connect" /\ calls[i].args.username = "root"

\* the four operations of the service
OperationPaths == UpgradePaths \cup DiscoveryPaths

\* no SSH client was made or connected and no virtualization session was asked for
NothingAttempted == calls = <<>> /\ client = "none" /\ session = "none"

\* C11: for each of the four operations, a config.json that is missing,
\* unreadable or not valid JSON makes the request fail with status 500, and
\* no SSH or virtualization connection is attempted first.
C11_ConfigUnavailableIs500 ==
    (request.path \in OperationPaths /\ ConfigUnavailable(config))
    => /\ NothingAttempted
       /\ pc = "done" => response.status_code = 500

\* C11 witness: an upgrade request answered while config.json is not valid JSON
C11_Witness ==
    /\ Done("/vm/apply_upgrades")
    /\ config.state = "invalid"
    /\ response.status_code = 500
    /\ NothingAttempted

\* how many times the request called op
CountOp(op) == Cardinality({i \in 1..Len(calls) : calls[i].op = op})

\* C12: every remote session a request opens is closed before the response is
\* returned, on the success path and on every failure path: the virtualization
\* session is disconnected exactly once when SmartConnect returned one and
\* never otherwise, and the SSH client is closed, once and as the last remote
\* call, after every command execution attempt.
C12_SessionsClosedBeforeResponse ==
    pc = "done" =>
        /\ session # "open"
        /\ CountOp("Disconnect") = (IF session = "closed" THEN 1 ELSE 0)
        /\ client \in {"none", "closed"}
        /\ CountOp("close") = (IF client = "closed" THEN 1 ELSE 0)
        /\ client = "closed" => calls[Len(calls)].op = "close"
        /\ (request.path \in DiscoveryPaths /\ CountOp("SmartConnect") = 1
               /\ fault.step # "SmartConnect")
           => session = "closed"
        /\ (request.path \in UpgradePaths /\ ~ConfigUnavailable(config))
           => client = "closed"

\* C12 witness: permission is denied after the session was obtained, and the
\* session is disconnected before the 403 is answered
C12_Witness ==
    /\ Done("/esxi/get_linux_vm_ip")
    /\ fault.type = "NoPermission"
    /\ fault.step # "SmartConnect"
    /\ session = "closed"
    /\ CountOp("Disconnect") = 1

\* the positions at which the running handler is inside a blocking call to
\* the remote end: the SSH connect and command, the virtualization calls
RemoteCalls ==
    {"ssh_connect", "ssh_exec", "ip_connect", "ip_content", "ip_view",
     "list_connect", "list_content", "list_view"}

\* C13: when several requests are in flight, a remote end that is slow for
\* one request delays only that request: while its handler waits in a remote
\* call, a waiting request can be started.
C13_SlowRemoteDelaysOnlyItsRequest ==
    (pc \in RemoteCalls /\ pending > 0) => ENABLED DispatchPending

\* C13 witness: a request waits for the event loop while the handler of
\* another is inside the remote command
C13_Witness ==
    /\ pc = "ssh_exec"
    /\ pending > 0
    /\ ~ENABLED DispatchPending

\* the calls that only end a session
ClosingCalls == {"close", "Disconnect"}

\* the position in calls of the call that failed, 0 when the failure was local
\* (the key file) or the call did not return a session
FailedAt ==
    IF \E i \in 1..Len(calls) : calls[i].op = fault.step
    THEN CHOOSE i \in 1..Len(calls) :
            /\ calls[i].op = fault.step
            /\ \A j \in 1..Len(calls) : calls[j].op = fault.step => j <= i
    ELSE 0

\* C14: nothing is retried: one request makes at most one SSH connect attempt,
\* at most one remote command execution and at most one virtualization
\* connect attempt; after the first remote failure it makes no remote call
\* other than closing its session, and it answers with an error response.
C14_NothingRetried ==
    /\ CountOp("connect") <= 1
    /\ CountOp("exec_command") <= 1
    /\ CountOp("SmartConnect") <= 1
    /\ fault # NoFault =>
        /\ \A j \in 1..Len(calls) : j > FailedAt => calls[j].op \in ClosingCalls
        /\ pc = "done" => response.status_code >= 400

\* C14 witness: the SSH connect failed, the command was never run, the client
\* was closed and the request was answered with an error
C14_Witness ==
    /\ Done("/vm/check_upgrades")
    /\ fault.step = "connect"
    /\ CountOp("connect") = 1
    /\ CountOp("exec_command") = 0
    /\ calls[Len(calls)].op = "close"
    /\ response.status_code >= 400

====
